---- MODULE Spec2Model ----
(***************************************************************************)
(* Verification model of the CC-VirtualLabs deadlock simulator             *)
(* (src/deadlock-simulator/app/main.py): the DeadlockSimulator engine with *)
(* its triple bookkeeping of allocations and requests, the release-time    *)
(* scan of pending requests and the wait-for-graph deadlock detection.     *)
(*                                                                         *)
(* Python dicts are functions whose DOMAIN is the key set.  The one dict   *)
(* whose iteration order decides a result, Resource.requested, is a        *)
(* sequence of [pid, units] entries in dict insertion order.  Process and  *)
(* resource ids (uuid4 strings in the code) are the numbers 1, 2, ... in   *)
(* creation order, so the insertion order of self.processes and            *)
(* self.request_graph is the numeric order of the ids.                     *)
(***************************************************************************)
EXTENDS Integers, Sequences, FiniteSets, TLC

\* Bounds of the model.
MaxProcs == 3
MaxRes == 2
MaxUnits == 3
MaxIntUnits == 2
MaxHeld == 3

\* `units: int` of the request models is not validated: zero and negative
\* values reach the engine.  Optional[int] is <<>> for None and <<u>> for u.
\*
\* frames holds the calls of request_resource that are in flight when the
\* endpoint is served by several worker threads at once: for each calling
\* process the locals of its call and the place it has reached.  It stays
\* empty where every call runs from start to end in one step.

\* The two other services of the repository share no state with the engine.
\* producer_consumer and dining_philosophers are the simulation objects of
\* the concurrency simulator together with the threads working on them;
\* fs_manager is the filesystem service's manager and fs_result the outcome
\* of the last call made on it.

VARIABLES processes, resources, allocation_graph, request_graph, result,
          frames, producer_consumer, dining_philosophers, fs_manager,
          fs_result

labs == <<producer_consumer, dining_philosophers, fs_manager, fs_result>>

vars == <<processes, resources, allocation_graph, request_graph, result,
          frames, producer_consumer, dining_philosophers, fs_manager,
          fs_result>>

----------------------------------------------------------------------------
\* Dict helpers.

EmptyDict == <<>>

Put(d, k, v) == [x \in (DOMAIN d) \cup {k} |-> IF x = k THEN v ELSE d[x]]

Del(d, k) == [x \in (DOMAIN d) \ {k} |-> d[x]]

RECURSIVE SumOver(_, _)
SumOver(d, keys) ==
    IF keys = {} THEN 0
    ELSE LET k == CHOOSE x \in keys : TRUE
         IN d[k] + SumOver(d, keys \ {k})

CountKeys(d) == Cardinality(DOMAIN d)

\* sum(d.values(), 0)
SumValues(d) == SumOver(d, DOMAIN d)

\* Insertion-ordered dict (Resource.requested): a sequence of entries.
OKeys(od) == {od[i].pid : i \in DOMAIN od}

OIndex(od, k) == CHOOSE i \in DOMAIN od : od[i].pid = k

OGet(od, k) == od[OIndex(od, k)].units

OPutAdding(od, k, v) ==
    IF k \in OKeys(od)
    THEN [od EXCEPT ![OIndex(od, k)].units = @ + v]
    ELSE Append(od, [pid |-> k, units |-> v])

\* od[k] = v: an existing key keeps its position, a new key goes last.
OPut(od, k, v) ==
    IF k \in OKeys(od)
    THEN [od EXCEPT ![OIndex(od, k)].units = v]
    ELSE Append(od, [pid |-> k, units |-> v])

\* del od[k]
ODel(od, k) == SelectSeq(od, LAMBDA e : e.pid # k)

----------------------------------------------------------------------------
\* What the last call returned: ret is its return value, deadlocked the
\* process set of detect_deadlock, scanned the entries the for loop of the
\* scan a release ran went over and satisfied its satisfied_processes list.

Ret(op, ret) ==
    [op |-> op, ret |-> ret, deadlocked |-> {}, scanned |-> <<>>,
     satisfied |-> <<>>]

Init ==
    /\ processes = EmptyDict
    /\ resources = EmptyDict
    /\ allocation_graph = EmptyDict
    /\ request_graph = EmptyDict
    /\ result = Ret("init", "none")
    /\ frames = EmptyDict
    /\ producer_consumer = [status |-> "absent", buffer |-> <<>>,
                            buffer_size |-> 0, lock |-> 0, threads |-> <<>>]
    /\ dining_philosophers = [status |-> "absent", num_philosophers |-> 0,
                              forks |-> <<>>, states |-> <<>>, tasks |-> <<>>]
    /\ fs_manager = [files |-> EmptyDict,
                     directories |-> {[name |-> "/", parent_dir |-> ""]}]
    /\ fs_result = [op |-> "init", file_id |-> 0, user_id |-> "", ret |-> "none"]

NewProcessTerminated == [allocated_resources |-> EmptyDict,
                         requested_resources |-> EmptyDict,
                         status |-> "terminated"]

NewProcess == [allocated_resources |-> EmptyDict,
               requested_resources |-> EmptyDict,
               status |-> "active"]

NewResource(units) == [units |-> units,
                       allocated |-> EmptyDict,
                       requested |-> <<>>]

create_process ==
    /\ LET id == Cardinality(DOMAIN processes) + 1
       IN /\ processes' = Put(processes, id, NewProcess)
          /\ allocation_graph' = Put(allocation_graph, id, EmptyDict)
          /\ request_graph' = Put(request_graph, id, EmptyDict)
    /\ result' = Ret("create_process", "ok")
    /\ UNCHANGED resources

create_resource(units) ==
    /\ LET id == Cardinality(DOMAIN resources) + 1
       IN resources' = Put(resources, id, NewResource(units))
    /\ result' = Ret("create_resource", "ok")
    /\ UNCHANGED <<processes, allocation_graph, request_graph>>

\* The dict get_system_state returns (names left out): the processes and the
\* resources as lists in creation order, and the two graphs.
get_system_state ==
    [processes |->
         [i \in 1..Cardinality(DOMAIN processes) |->
             [id |-> i,
              status |-> processes[i].status,
              allocated |-> processes[i].allocated_resources,
              requested |-> processes[i].requested_resources]],
     resources |->
         [i \in 1..Cardinality(DOMAIN resources) |->
             [id |-> i,
              units |-> resources[i].units,
              allocated |-> resources[i].allocated,
              requested |-> resources[i].requested]],
     allocation_graph |-> allocation_graph,
     request_graph |-> request_graph]

reset_tables_only ==
    /\ processes' = EmptyDict
    /\ resources' = EmptyDict
    /\ UNCHANGED <<allocation_graph, request_graph>>
    /\ result' = Ret("reset", "ok")

reset ==
    /\ processes' = EmptyDict
    /\ resources' = EmptyDict
    /\ allocation_graph' = EmptyDict
    /\ request_graph' = EmptyDict
    /\ result' = Ret("reset", "ok")

----------------------------------------------------------------------------
\* request_resource

RaiseAfterBlocking(op) ==
    /\ result' = Ret(op, "ValueError")
    /\ processes' = [p \in DOMAIN processes |->
                        [processes[p] EXCEPT !.status = "blocked"]]
    /\ UNCHANGED <<resources, allocation_graph, request_graph>>

\* `raise ValueError(...)` of the id checks that open request_resource and
\* release_resource: nothing was touched before them.
Raise(op) ==
    /\ result' = Ret(op, "ValueError")
    /\ UNCHANGED <<processes, resources, allocation_graph, request_graph>>

\* `d[k] += v` when k is a key of d, `d[k] = v` otherwise.
AddTo(d, k, v) == IF k \in DOMAIN d THEN Put(d, k, d[k] + v) ELSE Put(d, k, v)

\* self.allocation_graph[pid][resource_id] = units
SetAllocationGraph(entry, resource_id, units) == Put(entry, resource_id, units)

\* The recorded allocations stay within the model's cap.
Capped(res) ==
    \A r \in DOMAIN res : \A p \in DOMAIN res[r].allocated :
        /\ res[r].allocated[p] <= MaxHeld
        /\ res[r].allocated[p] >= 0 - MaxHeld

request_resource(process_id, resource_id, units) ==
    IF process_id \notin DOMAIN processes \/ resource_id \notin DOMAIN resources
    THEN Raise("request")
    ELSE LET process == processes[process_id]
             resource == resources[resource_id]
             allocated_units == SumValues(resource.allocated)
             available_units == resource.units - allocated_units
             \* Record the request
             requested1 == OPut(resource.requested, process_id, units)
             requested_resources1 ==
                 Put(process.requested_resources, resource_id, units)
             request_graph1 == Put(request_graph[process_id], resource_id, units)
         IN IF available_units >= units
            THEN /\ resources' = [resources EXCEPT ![resource_id] =
                        [resource EXCEPT
                            !.allocated = AddTo(@, process_id, units),
                            !.requested = ODel(requested1, process_id)]]
                 /\ processes' = [processes EXCEPT ![process_id] =
                        [process EXCEPT
                            !.allocated_resources = AddTo(@, resource_id, units),
                            !.requested_resources =
                                Del(requested_resources1, resource_id)]]
                 /\ allocation_graph' = [allocation_graph EXCEPT ![process_id] =
                        SetAllocationGraph(@, resource_id, units)]
                 /\ request_graph' = [request_graph EXCEPT ![process_id] =
                        Del(request_graph1, resource_id)]
                 /\ Capped(resources')
                 /\ result' = Ret("request", "true")
            ELSE /\ resources' = [resources EXCEPT ![resource_id] =
                        [resource EXCEPT !.requested = requested1]]
                 /\ processes' = [processes EXCEPT ![process_id] =
                        [process EXCEPT
                            !.requested_resources = requested_resources1,
                            !.status = "blocked"]]
                 /\ request_graph' = [request_graph EXCEPT ![process_id] =
                        request_graph1]
                 /\ UNCHANGED allocation_graph
                 /\ result' = Ret("request", "false")

----------------------------------------------------------------------------
\* _try_satisfy_waiting_requests

ScanOrderReversed(requested) ==
    [i \in DOMAIN requested |-> requested[Len(requested) + 1 - i]]

\* The order in which the scan visits resource.requested.items().
ScanOrder(requested) == requested

RECURSIVE ScanLoopStopAtMisfit(_, _, _, _)
ScanLoopStopAtMisfit(resource_id, items, i, acc) ==
    IF i > Len(items) \/ items[i].units > acc.available_units THEN acc
    ELSE LET pid == items[i].pid
             requested_units == items[i].units
             acc1 ==
                 [allocated |-> AddTo(acc.allocated, pid, requested_units),
                  processes |-> [acc.processes EXCEPT ![pid] =
                      [@ EXCEPT
                          !.allocated_resources =
                              AddTo(@, resource_id, requested_units),
                          !.status = "active"]],
                  allocation_graph |-> [acc.allocation_graph EXCEPT ![pid] =
                      SetAllocationGraph(@, resource_id, requested_units)],
                  available_units |-> acc.available_units - requested_units,
                  satisfied_processes |-> Append(acc.satisfied_processes, pid)]
         IN IF acc1.available_units = 0
            THEN acc1
            ELSE ScanLoopStopAtMisfit(resource_id, items, i + 1, acc1)

\* The body of the for loop from entry i on; acc carries the structures the
\* loop mutates, the remaining available units and satisfied_processes.
RECURSIVE ScanLoop(_, _, _, _)
ScanLoop(resource_id, items, i, acc) ==
    IF i > Len(items) THEN acc
    ELSE LET pid == items[i].pid
             requested_units == items[i].units
         IN IF requested_units <= acc.available_units
            THEN LET acc1 ==
                     [allocated |-> AddTo(acc.allocated, pid, requested_units),
                      processes |-> [acc.processes EXCEPT ![pid] =
                          [@ EXCEPT
                              !.allocated_resources =
                                  AddTo(@, resource_id, requested_units),
                              !.status = "active"]],
                      allocation_graph |-> [acc.allocation_graph EXCEPT ![pid] =
                          SetAllocationGraph(@, resource_id, requested_units)],
                      available_units |-> acc.available_units - requested_units,
                      satisfied_processes |-> Append(acc.satisfied_processes, pid)]
                 IN IF acc1.available_units = 0
                    THEN acc1
                    ELSE ScanLoop(resource_id, items, i + 1, acc1)
            ELSE ScanLoop(resource_id, items, i + 1, acc)

\* One pass of the "Remove satisfied requests" loop, on
\* st = [requested, processes, request_graph].
RemoveRequestKeepGraph(resource_id, pid, st) ==
    [requested |-> ODel(st.requested, pid),
     processes |-> [st.processes EXCEPT ![pid] =
         [@ EXCEPT !.requested_resources = Del(@, resource_id)]],
     request_graph |-> st.request_graph]

RemoveRequestKeepEntry(resource_id, pid, st) ==
    [requested |-> st.requested,
     processes |-> [st.processes EXCEPT ![pid] =
         [@ EXCEPT !.requested_resources = Del(@, resource_id)]],
     request_graph |->
         IF pid \in DOMAIN st.request_graph
            /\ resource_id \in DOMAIN st.request_graph[pid]
         THEN [st.request_graph EXCEPT ![pid] = Del(@, resource_id)]
         ELSE st.request_graph]

RemoveRequest(resource_id, pid, st) ==
    [requested |-> ODel(st.requested, pid),
     processes |-> [st.processes EXCEPT ![pid] =
         [@ EXCEPT !.requested_resources = Del(@, resource_id)]],
     request_graph |->
         IF pid \in DOMAIN st.request_graph
            /\ resource_id \in DOMAIN st.request_graph[pid]
         THEN [st.request_graph EXCEPT ![pid] = Del(@, resource_id)]
         ELSE st.request_graph]

\* `for pid in satisfied_processes`
RECURSIVE RemoveSatisfied(_, _, _, _)
RemoveSatisfied(resource_id, satisfied_processes, i, st) ==
    IF i > Len(satisfied_processes) THEN st
    ELSE RemoveSatisfied(resource_id, satisfied_processes, i + 1,
             RemoveRequest(resource_id, satisfied_processes[i], st))

\* The engine after the scan of resource_id, from the engine sys =
\* [processes, resources, allocation_graph, request_graph], with the scan's
\* satisfied_processes.
try_satisfy_waiting_requests(sys, resource_id) ==
    LET resource == sys.resources[resource_id]
        allocated_units == SumValues(resource.allocated)
        available_units == resource.units - allocated_units
    IN IF available_units = 0
       THEN [processes |-> sys.processes,
             resources |-> sys.resources,
             allocation_graph |-> sys.allocation_graph,
             request_graph |-> sys.request_graph,
             scanned |-> <<>>,
             satisfied_processes |-> <<>>]
       ELSE LET acc == ScanLoop(resource_id, ScanOrder(resource.requested), 1,
                           [allocated |-> resource.allocated,
                            processes |-> sys.processes,
                            allocation_graph |-> sys.allocation_graph,
                            available_units |-> available_units,
                            satisfied_processes |-> <<>>])
                st == RemoveSatisfied(resource_id, acc.satisfied_processes, 1,
                          [requested |-> resource.requested,
                           processes |-> acc.processes,
                           request_graph |-> sys.request_graph])
            IN [processes |-> st.processes,
                resources |-> [sys.resources EXCEPT ![resource_id] =
                    [resource EXCEPT !.allocated = acc.allocated,
                                     !.requested = st.requested]],
                allocation_graph |-> acc.allocation_graph,
                request_graph |-> st.request_graph,
                scanned |-> ScanOrder(resource.requested),
                satisfied_processes |-> acc.satisfied_processes]

----------------------------------------------------------------------------
\* release_resource

release_resource(process_id, resource_id, units) ==
    IF process_id \notin DOMAIN processes \/ resource_id \notin DOMAIN resources
    THEN Raise("release")
    ELSE LET process == processes[process_id]
             resource == resources[resource_id]
         IN IF process_id \notin DOMAIN resource.allocated
            THEN /\ result' = Ret("release", "false")
                 /\ UNCHANGED <<processes, resources, allocation_graph,
                                request_graph>>
            ELSE LET released ==
                         IF units = <<>> \/ units[1] >= resource.allocated[process_id]
                         THEN [processes |-> [processes EXCEPT ![process_id] =
                                   [process EXCEPT !.allocated_resources =
                                       Del(@, resource_id)]],
                               resources |-> [resources EXCEPT ![resource_id] =
                                   [resource EXCEPT !.allocated =
                                       Del(@, process_id)]],
                               allocation_graph |->
                                   IF resource_id \in
                                          DOMAIN allocation_graph[process_id]
                                   THEN [allocation_graph EXCEPT ![process_id] =
                                            Del(@, resource_id)]
                                   ELSE allocation_graph,
                               request_graph |-> request_graph]
                         ELSE [processes |-> [processes EXCEPT ![process_id] =
                                   [process EXCEPT !.allocated_resources =
                                       Put(@, resource_id, @[resource_id] - units[1])]],
                               resources |-> [resources EXCEPT ![resource_id] =
                                   [resource EXCEPT !.allocated =
                                       Put(@, process_id, @[process_id] - units[1])]],
                               allocation_graph |->
                                   [allocation_graph EXCEPT ![process_id] =
                                       Put(@, resource_id,
                                           resource.allocated[process_id] - units[1])],
                               request_graph |-> request_graph]
                     after == try_satisfy_waiting_requests(released, resource_id)
                 IN /\ processes' = after.processes
                    /\ resources' = after.resources
                    /\ allocation_graph' = after.allocation_graph
                    /\ request_graph' = after.request_graph
                    /\ Capped(resources')
                    /\ result' = [Ret("release", "true") EXCEPT
                                      !.scanned = after.scanned,
                                      !.satisfied = after.satisfied_processes]

----------------------------------------------------------------------------
\* detect_deadlock

\* The wait-for graph the detector builds: a key for every process with a
\* non-empty request_graph entry, mapped to the other processes that are keys
\* of the allocated dict of a resource it requests.
wait_for_graph ==
    [p_id \in {p \in DOMAIN request_graph : DOMAIN request_graph[p] # {}} |->
        UNION {DOMAIN resources[r_id].allocated \ {p_id} :
                   r_id \in DOMAIN request_graph[p_id]}]

\* The keys of a dict keyed by process ids, in insertion (creation) order.
RECURSIVE KeysInOrder(_)
KeysInOrder(keys) ==
    IF keys = {} THEN <<>>
    ELSE LET k == CHOOSE x \in keys : \A y \in keys : x <= y
         IN <<k>> \o KeysInOrder(keys \ {k})

\* The sequences that enumerate the set S once each: the orders in which a
\* Python set may be iterated.
Enumerations(S) ==
    {s \in [1..Cardinality(S) -> S] : \A i, j \in DOMAIN s : s[i] = s[j] => i = j}

\* One iteration order for each neighbour set of the graph.
NeighborOrders(graph) ==
    {o \in [DOMAIN graph -> UNION {Enumerations(graph[n]) : n \in DOMAIN graph}] :
        \A n \in DOMAIN graph : o[n] \in Enumerations(graph[n])}

OnStackOrVisited(neighbor, st) == neighbor \in st.visited

\* `elif neighbor in rec_stack`
OnStack(neighbor, st) == neighbor \in st.rec_stack

LeaveNodeKeepStack(node, st) == [st EXCEPT !.ret = FALSE]

\* What dfs does when it returns False: rec_stack.remove(node).
LeaveNode(node, st) == [st EXCEPT !.rec_stack = @ \ {node}, !.ret = FALSE]

MarkDeadlockedAndLeave(node, st) ==
    [st EXCEPT !.deadlocked = @ \cup {node}, !.rec_stack = @ \ {node}, !.ret = TRUE]

\* What dfs does when a cycle was found below node.
MarkDeadlocked(node, st) == [st EXCEPT !.deadlocked = @ \cup {node}, !.ret = TRUE]

\* dfs(node) of _find_cycles on st = [visited, rec_stack, deadlocked, ret];
\* DfsNeighbors is its for loop from the i-th neighbour on, with ret = TRUE
\* when the loop ended in `return True`.
RECURSIVE dfs(_, _, _, _)
RECURSIVE DfsNeighbors(_, _, _, _, _)
dfs(graph, order, node, st) ==
    LET st1 == [st EXCEPT !.visited = @ \cup {node},
                          !.rec_stack = @ \cup {node},
                          !.ret = FALSE]
        st2 == IF node \in DOMAIN graph
               THEN DfsNeighbors(graph, order, node, 1, st1)
               ELSE st1
    IN IF st2.ret THEN MarkDeadlocked(node, st2) ELSE LeaveNode(node, st2)

DfsNeighbors(graph, order, node, i, st) ==
    IF i > Len(order[node]) THEN [st EXCEPT !.ret = FALSE]
    ELSE LET neighbor == order[node][i]
         IN IF neighbor \notin st.visited
            THEN LET sub == dfs(graph, order, neighbor, st)
                 IN IF sub.ret THEN sub
                    ELSE DfsNeighbors(graph, order, node, i + 1, sub)
            ELSE IF OnStack(neighbor, st)
                 THEN [st EXCEPT !.ret = TRUE]
                 ELSE DfsNeighbors(graph, order, node, i + 1, st)

\* `for node in graph: if node not in visited: dfs(node)`
RECURSIVE FindFrom(_, _, _, _, _)
FindFrom(graph, order, roots, i, st) ==
    IF i > Len(roots) THEN st
    ELSE FindFrom(graph, order, roots, i + 1,
             IF roots[i] \notin st.visited
             THEN dfs(graph, order, roots[i], st)
             ELSE st)

find_cycles(graph, order) ==
    FindFrom(graph, order, KeysInOrder(DOMAIN graph), 1,
        [visited |-> {}, rec_stack |-> {}, deadlocked |-> {}, ret |-> FALSE]
    ).deadlocked

detect_deadlock ==
    /\ \E order \in NeighborOrders(wait_for_graph) :
          LET deadlocked_processes == find_cycles(wait_for_graph, order)
          IN result' = [Ret("detect",
                                IF Cardinality(deadlocked_processes) > 0
                                THEN "true" ELSE "false")
                            EXCEPT !.deadlocked = deadlocked_processes]
    /\ UNCHANGED <<processes, resources, allocation_graph, request_graph>>

----------------------------------------------------------------------------
\* The callers: any sequence of calls, with at most P processes and R
\* resources alive, resources created with a unit count of T and requests
\* and releases for a unit count of U.

Optional(U) == {<<>>} \cup {<<u>> : u \in U}

Calls(P, R, T, U) ==
    \/ Cardinality(DOMAIN processes) < P /\ create_process /\ UNCHANGED <<frames, labs>>
    \/ \E units \in T :
           /\ Cardinality(DOMAIN resources) < R
           /\ create_resource(units)
           /\ UNCHANGED <<frames, labs>>
    \/ \E p \in 1..P, r \in 1..R, units \in U :
           request_resource(p, r, units) /\ UNCHANGED <<frames, labs>>
    \/ \E p \in 1..P, r \in 1..R, units \in Optional(U) :
           release_resource(p, r, units) /\ UNCHANGED <<frames, labs>>
    \/ detect_deadlock /\ UNCHANGED <<frames, labs>>
    \/ reset /\ UNCHANGED <<frames, labs>>

\* Single-unit resources: the setting of the deadlock scenarios.
Next == Calls(MaxProcs, MaxRes, {1}, {1})

Spec == Init /\ [][Next]_vars

\* One resource of up to MaxUnits units, requests of 1..MaxUnits units.
NextUnits == Calls(MaxProcs, 1, 1..MaxUnits, 1..MaxUnits)

SpecUnits == Init /\ [][NextUnits]_vars

\* One resource and two processes, unit counts of any sign.
NextInts == Calls(2, 1, (0 - 1)..MaxIntUnits, (0 - 1)..MaxIntUnits)

SpecInts == Init /\ [][NextInts]_vars

----------------------------------------------------------------------------
\* Properties.

\* d.get(k) as an optional: <<>> when k is no key, <<d[k]>> otherwise.
Lookup(d, k) == IF k \in DOMAIN d THEN <<d[k]>> ELSE <<>>

OLookup(od, k) == IF k \in OKeys(od) THEN <<OGet(od, k)>> ELSE <<>>

Pairs == (DOMAIN processes) \X (DOMAIN resources)

\* C1: for every resource (created with at least one unit), the units in its
\* allocated map sum to at most its total units, after any sequence of calls.
C1_CapacityInvariant ==
    \A r \in DOMAIN resources :
        resources[r].units >= 1 =>
            SumValues(resources[r].allocated) <= resources[r].units

\* C2: for every process p and resource r the three views of the allocated
\* units, resource.allocated[p], process.allocated_resources[r] and
\* allocation_graph[p][r], are all absent or all equal.
C2_AllocationConsistency ==
    \A pr \in Pairs :
        /\ Lookup(resources[pr[2]].allocated, pr[1])
               = Lookup(processes[pr[1]].allocated_resources, pr[2])
        /\ Lookup(resources[pr[2]].allocated, pr[1])
               = Lookup(allocation_graph[pr[1]], pr[2])

\* C3: for every process p and resource r the three views of the pending
\* units, resource.requested[p], process.requested_resources[r] and
\* request_graph[p][r], are all absent or all equal.
C3_RequestConsistency ==
    /\ DOMAIN request_graph = DOMAIN processes
    /\ \A pr \in Pairs :
        /\ OLookup(resources[pr[2]].requested, pr[1])
               = Lookup(processes[pr[1]].requested_resources, pr[2])
        /\ OLookup(resources[pr[2]].requested, pr[1])
               = Lookup(request_graph[pr[1]], pr[2])

\* A release has run its scan and left a request pending in all three views
\* while another process holds units of that resource.
C3_Witness ==
    /\ result.op = "release"
    /\ result.ret = "true"
    /\ \E pr \in Pairs :
        /\ pr[1] \in OKeys(resources[pr[2]].requested)
        /\ pr[2] \in DOMAIN processes[pr[1]].requested_resources
        /\ pr[2] \in DOMAIN request_graph[pr[1]]
        /\ \E q \in DOMAIN resources[pr[2]].allocated : q # pr[1]

\* Supersets of the ids and unit counts the callers pass.
AnyProc == 1..MaxProcs
AnyRes == 1..MaxRes
AnyUnits == (0 - MaxHeld)..MaxHeld

\* p has a nonzero entry in r's allocated map and one in r's requested map.
HoldsAndWaits(p, r) ==
    /\ r \in DOMAIN resources
    /\ p \in DOMAIN resources[r].allocated
    /\ resources[r].allocated[p] # 0
    /\ p \in OKeys(resources[r].requested)
    /\ OGet(resources[r].requested, p) # 0

\* C4 as stated: no process has both a nonzero entry in a resource's
\* allocated map and a nonzero entry in its requested map.
C4_NoHoldAndWait ==
    \A p \in AnyProc, r \in AnyRes : ~HoldsAndWaits(p, r)

\* C4 as amended: a process comes to hold units of a resource and to have a
\* pending request for it at once only through its own call on that resource
\* that grants it nothing (a request that is not granted, or a release of a
\* negative unit count); no grant and no call of another process brings this
\* about.
C4_HoldAndWaitOnlyByOwnCall ==
    [][\A p \in AnyProc, r \in AnyRes :
          (~HoldsAndWaits(p, r) /\ HoldsAndWaits(p, r)') =>
              \/ /\ \E units \in AnyUnits : request_resource(p, r, units)
                 /\ result'.ret = "false"
              \/ \E units \in AnyUnits :
                     units < 0 /\ release_resource(p, r, <<units>>)
      ]_vars

\* A request that was not granted has left its process holding units of the
\* resource it waits for.
C4_Witness ==
    /\ result.op = "request"
    /\ result.ret = "false"
    /\ \E p \in AnyProc, r \in AnyRes : HoldsAndWaits(p, r)

\* C5: a process whose status is "active" has no pending request.
C5_ActiveHasNoPending ==
    \A p \in DOMAIN processes :
        processes[p].status = "active" =>
            /\ DOMAIN processes[p].requested_resources = {}
            /\ \A r \in DOMAIN resources : p \notin OKeys(resources[r].requested)

\* C6: a process whose status is "blocked" has at least one pending request.
C6_BlockedHasPending ==
    \A p \in DOMAIN processes :
        processes[p].status = "blocked" =>
            \/ DOMAIN processes[p].requested_resources # {}
            \/ \E r \in DOMAIN resources : p \in OKeys(resources[r].requested)

\* The units recorded for (p, r) in one view were lowered or removed.
Lowered(before, after) ==
    /\ before # <<>>
    /\ after = <<>> \/ after[1] < before[1]

\* C7: the units the engine records as allocated to p on r (in any of the
\* three views) are lowered or removed only by release_resource(p, r, ...) or
\* by reset.
C7_GrantMonotonicity ==
    [][\/ reset
       \/ \A p \in DOMAIN processes, r \in DOMAIN resources :
            (\/ Lowered(Lookup(resources[r].allocated, p),
                        Lookup(resources'[r].allocated, p))
             \/ Lowered(Lookup(processes[p].allocated_resources, r),
                        Lookup(processes'[p].allocated_resources, r))
             \/ Lowered(Lookup(allocation_graph[p], r),
                        Lookup(allocation_graph'[p], r)))
            => \E units \in Optional(AnyUnits) : release_resource(p, r, units)
      ]_vars

\* Reachability in the wait-for graph, computed without the search.
Successors(graph, n) == IF n \in DOMAIN graph THEN graph[n] ELSE {}

RECURSIVE Closure(_, _)
Closure(graph, S) ==
    LET T == S \cup UNION {Successors(graph, n) : n \in S}
    IN IF T = S THEN S ELSE Closure(graph, T)

\* The processes a wait-for path of one edge or more leads to from n.
WaitsOn(graph, n) == Closure(graph, Successors(graph, n))

OnCycle(graph, n) == n \in WaitsOn(graph, n)

ReachesCycle(graph, n) ==
    OnCycle(graph, n) \/ \E m \in WaitsOn(graph, n) : OnCycle(graph, m)

\* C8: every process on a cycle of the wait-for graph, and every process with
\* a wait-for path into a cycle, is in the set detect_deadlock returns,
\* whatever the order of the search.
C8_DetectionComplete ==
    result.op = "detect" =>
        \A p \in DOMAIN processes :
            ReachesCycle(wait_for_graph, p) => p \in result.deadlocked

\* detect_deadlock has reported a process that waits into a cycle without
\* being on it.
C8_Witness ==
    /\ result.op = "detect"
    /\ \E p \in result.deadlocked :
        /\ ~OnCycle(wait_for_graph, p)
        /\ ReachesCycle(wait_for_graph, p)

\* C9: detect_deadlock reports no process from which no cycle of the
\* wait-for graph is reachable, so nothing when the graph is acyclic, and
\* deadlock_detected is true exactly when the reported list is non-empty.
C9_NoFalsePositive ==
    result.op = "detect" =>
        /\ \A p \in result.deadlocked : ReachesCycle(wait_for_graph, p)
        /\ result.ret = "true" <=> result.deadlocked # {}
        /\ (\A p \in DOMAIN processes : ~OnCycle(wait_for_graph, p)) =>
               result.ret = "false" /\ result.deadlocked = {}

\* detect_deadlock has answered false although two processes wait on a
\* third that holds a resource and waits on nothing.
C9_Witness ==
    /\ result.op = "detect"
    /\ result.ret = "false"
    /\ result.deadlocked = {}
    /\ \E p, q \in DOMAIN wait_for_graph :
        p # q /\ wait_for_graph[p] \cap wait_for_graph[q] # {}

\* The units a release_resource(p, r, units) that returns True leaves
\* available to its scan.
AvailableToScan(p, r, units) ==
    LET held == resources[r].allocated[p]
        released == IF units = <<>> \/ units[1] >= held THEN held ELSE units[1]
    IN resources[r].units - (SumValues(resources[r].allocated) - released)

\* Of the pending requests i and j of r, each fits avail alone but not both.
FitAloneNotTogether(r, i, j, avail) ==
    /\ resources[r].requested[i].units <= avail
    /\ resources[r].requested[j].units <= avail
    /\ resources[r].requested[i].units + resources[r].requested[j].units > avail

\* The units q holds of r once release_resource(p, r, units) has released
\* and before its scan runs (0 when q has no entry).
HeldBeforeScan(p, r, units, q) ==
    LET allocated == resources[r].allocated
    IN IF q \notin DOMAIN allocated THEN 0
       ELSE IF q # p THEN allocated[q]
       ELSE IF units = <<>> \/ units[1] >= allocated[p] THEN 0
       ELSE allocated[p] - units[1]

\* The step release_resource(p, r, units) has granted the pending request e
\* of r: it is no longer pending and its units were added to what its
\* process held.
GrantedByStep(p, r, units, e) ==
    /\ e.pid \notin OKeys(resources'[r].requested)
    /\ e.pid \in DOMAIN resources'[r].allocated
    /\ resources'[r].allocated[e.pid] = HeldBeforeScan(p, r, units, e.pid) + e.units

\* After the step, the pending request e of r is pending as before.
PendingAfterStep(r, e) == OLookup(resources'[r].requested, e.pid) = <<e.units>>

\* C10 as stated: when a release leaves units to its scan and two pending
\* requests each fit them alone but not together, the one inserted first is
\* granted and the later one stays pending.
C10_EarlierOfAnyTwoGranted ==
    [][(result'.op = "release" /\ result'.ret = "true") =>
          \A p \in AnyProc, r \in AnyRes, units \in Optional(AnyUnits) :
              release_resource(p, r, units) =>
                  \A i, j \in DOMAIN resources[r].requested :
                      (i < j /\ FitAloneNotTogether(r, i, j,
                                     AvailableToScan(p, r, units))) =>
                          /\ GrantedByStep(p, r, units, resources[r].requested[i])
                          /\ PendingAfterStep(r, resources[r].requested[j])
      ]_vars

\* C10 as amended: when the two requests are the two earliest-inserted
\* pending requests of the resource, the one inserted first is granted and
\* the other stays pending.
C10_EarlierOfFirstTwoGranted ==
    [][(result'.op = "release" /\ result'.ret = "true") =>
          \A p \in AnyProc, r \in AnyRes, units \in Optional(AnyUnits) :
              (/\ release_resource(p, r, units)
               /\ Len(resources[r].requested) >= 2
               /\ FitAloneNotTogether(r, 1, 2, AvailableToScan(p, r, units))) =>
                  /\ GrantedByStep(p, r, units, resources[r].requested[1])
                  /\ PendingAfterStep(r, resources[r].requested[2])
      ]_vars

\* A release whose scan granted one request and left pending a request of
\* another process that the units now held by the granted process would
\* have covered.
C10_Witness ==
    /\ result.op = "release"
    /\ Len(result.satisfied) = 1
    /\ \E r \in DOMAIN resources :
        LET g == result.satisfied[1]
            avail == resources[r].units - SumValues(resources[r].allocated)
        IN /\ g \in DOMAIN resources[r].allocated
           /\ Len(resources[r].requested) >= 1
           /\ resources[r].requested[1].pid # g
           /\ resources[r].requested[1].units > avail
           /\ resources[r].requested[1].units <= avail + resources[r].allocated[g]

\* C12: request_resource and release_resource called with an unknown process
\* id or an unknown resource id fail with an error and leave the process
\* table, the resource table, the allocation graph and the request graph
\* exactly as they were.
C12_UnknownIdsRejected ==
    [][\A p \in AnyProc, r \in AnyRes :
          (p \notin DOMAIN processes \/ r \notin DOMAIN resources) =>
              \A units \in Optional(AnyUnits) :
                  (\/ units # <<>> /\ request_resource(p, r, units[1])
                   \/ release_resource(p, r, units)) =>
                      /\ result'.ret = "ValueError"
                      /\ UNCHANGED <<processes, resources, allocation_graph,
                                     request_graph>>
      ]_vars

\* A call has failed on an unknown id while a process held units and another
\* had a request pending.
C12_Witness ==
    /\ result.ret = "ValueError"
    /\ \E r \in DOMAIN resources :
        /\ DOMAIN resources[r].allocated # {}
        /\ resources[r].requested # <<>>
    /\ \E p \in DOMAIN processes : processes[p].status = "blocked"

\* C13: create_resource registers no resource with a total unit count below
\* 1, so every resource in the resource table has units >= 1.
C13_TotalUnitsPositive ==
    \A r \in DOMAIN resources : resources[r].units >= 1

\* p holds no units of r: no entry in r's allocated map, or an entry of 0.
HoldsNone(p, r) ==
    \/ p \notin DOMAIN resources[r].allocated
    \/ resources[r].allocated[p] = 0

\* C15: release_resource(p, r, ...) for a process p that holds none of
\* resource r returns false and changes no allocation, request or status of
\* any process or resource.
C15_ReleaseOfNothingIsNoOp ==
    [][(result'.op = "release") =>
          \A p \in DOMAIN processes, r \in DOMAIN resources :
              HoldsNone(p, r) =>
                  \A units \in Optional(AnyUnits) :
                      release_resource(p, r, units) =>
                          /\ result'.ret = "false"
                          /\ UNCHANGED <<processes, resources, allocation_graph,
                                         request_graph>>
      ]_vars

\* C16: detect_deadlock is a pure read: it leaves the process table (with
\* the statuses), the resource table, the allocation graph and the request
\* graph unchanged, and a call that directly follows another call of
\* detect_deadlock returns the same deadlocked set and the same flag.
C16_DetectIsPureRead ==
    [][(result'.op = "detect") =>
          /\ UNCHANGED <<processes, resources, allocation_graph, request_graph>>
          /\ (result.op = "detect") =>
                 /\ result'.deadlocked = result.deadlocked
                 /\ result'.ret = result.ret
      ]_vars

\* detect_deadlock has reported deadlocked processes from a wait-for graph
\* in which a process waits on two others, so that the search had a choice
\* of order.
C16_Witness ==
    /\ result.op = "detect"
    /\ result.deadlocked # {}
    /\ \E p \in DOMAIN wait_for_graph : Cardinality(wait_for_graph[p]) >= 2

\* The process table, the resource table and both graphs are empty.
EngineEmpty ==
    /\ processes = EmptyDict
    /\ resources = EmptyDict
    /\ allocation_graph = EmptyDict
    /\ request_graph = EmptyDict

\* get_system_state returns no process and no resource.
StateShownEmpty ==
    /\ get_system_state.processes = <<>>
    /\ get_system_state.resources = <<>>

\* C17: after reset(), from any state, the process table, the resource
\* table, the allocation graph and the request graph are empty and
\* get_system_state returns empty processes and resources; they stay so under
\* every call but create_process and create_resource; and a reset that
\* follows a reset changes nothing.
C17_ResetEmptiesEngine ==
    [][/\ (result'.op = "reset") => (EngineEmpty' /\ StateShownEmpty')
       /\ (EngineEmpty /\ StateShownEmpty
               /\ result'.op \notin {"create_process", "create_resource"}) =>
              (EngineEmpty' /\ StateShownEmpty')
       /\ (result.op = "reset" /\ result'.op = "reset") =>
              UNCHANGED <<processes, resources, allocation_graph, request_graph>>
      ]_vars

\* reset has returned and get_system_state shows an empty engine.
C17_Witness ==
    /\ result.op = "reset"
    /\ EngineEmpty
    /\ StateShownEmpty

\* C18: in every reachable state every process's status is "active" or
\* "blocked"; no sequence of calls gives a process the status "terminated".
C18_StatusActiveOrBlocked ==
    \A p \in DOMAIN processes : processes[p].status \in {"active", "blocked"}

\* A release has run a scan that granted a request, which set the status of
\* its process, while another process is blocked.
C18_Witness ==
    /\ result.op = "release"
    /\ result.satisfied # <<>>
    /\ \A i \in DOMAIN result.satisfied :
           processes[result.satisfied[i]].status = "active"
    /\ \E p \in DOMAIN processes : processes[p].status = "blocked"

\* The units of r that are free: its total minus the sum of its allocated
\* map.
FreeUnits(r) ==
    resources[r].units
        - SumOver(resources[r].allocated, DOMAIN resources[r].allocated)

\* The step changes no allocation structure.
AllocationsUnchanged ==
    /\ allocation_graph' = allocation_graph
    /\ \A r \in DOMAIN resources : resources'[r].allocated = resources[r].allocated
    /\ \A p \in DOMAIN processes :
           processes'[p].allocated_resources = processes[p].allocated_resources

\* After the step the request of p for units of r is pending in the three
\* request structures.
PendingInAllThree(p, r, units) ==
    /\ OLookup(resources'[r].requested, p) = <<units>>
    /\ Lookup(processes'[p].requested_resources, r) = <<units>>
    /\ Lookup(request_graph'[p], r) = <<units>>

\* C19: request_resource(p, r, units) on known ids returns true exactly when
\* units <= total units of r minus the sum of r's allocated units at the
\* time of the call; when it returns false the allocation structures are
\* unchanged, p's status is "blocked" and the request is pending with that
\* unit count in resource.requested, process.requested_resources and
\* request_graph.
C19_GrantedIffUnitsFit ==
    [][(result'.op = "request") =>
          \A p \in DOMAIN processes, r \in DOMAIN resources, units \in AnyUnits :
              request_resource(p, r, units) =>
                  /\ result'.ret \in {"true", "false"}
                  /\ (result'.ret = "true") <=> (units <= FreeUnits(r))
                  /\ (result'.ret = "false") =>
                         /\ AllocationsUnchanged
                         /\ processes'[p].status = "blocked"
                         /\ PendingInAllThree(p, r, units)
      ]_vars

\* A request was refused although r has free units, fewer than it asked
\* for: its process is blocked and the request is pending in the three
\* request structures.
C19_Witness ==
    /\ result.op = "request"
    /\ result.ret = "false"
    /\ \E p \in DOMAIN processes, r \in DOMAIN resources :
        /\ processes[p].status = "blocked"
        /\ FreeUnits(r) >= 1
        /\ OLookup(resources[r].requested, p) # <<>>
        /\ OGet(resources[r].requested, p) > FreeUnits(r)
        /\ Lookup(processes[p].requested_resources, r)
               = OLookup(resources[r].requested, p)
        /\ Lookup(request_graph[p], r) = OLookup(resources[r].requested, p)

\* The processes whose requests the scan of the step granted.
GrantedByScan == {result'.satisfied[i] : i \in DOMAIN result'.satisfied}

\* The units still available when the scan comes to the j-th pending entry:
\* avail less the units of the entries before it that were granted.
RECURSIVE RemainingAt(_, _, _)
RemainingAt(items, j, avail) ==
    IF j = 1 THEN avail
    ELSE RemainingAt(items, j - 1, avail)
             - (IF items[j - 1].pid \in GrantedByScan
                THEN items[j - 1].units ELSE 0)

\* C20: in the scan a release runs, a pending request whose units exceed the
\* units still available when the scan comes to it is skipped and stays
\* pending; a request the scan comes to while units are left and that fits
\* them is granted, whatever was skipped before it; and once the available
\* count is zero nothing more is granted.
C20_ScanSkipsAndContinues ==
    [][(result'.op = "release" /\ result'.ret = "true") =>
          \A p \in AnyProc, r \in AnyRes, units \in Optional(AnyUnits) :
              release_resource(p, r, units) =>
                  \A j \in DOMAIN resources[r].requested :
                      LET e == resources[r].requested[j]
                          remaining == RemainingAt(resources[r].requested, j,
                                           AvailableToScan(p, r, units))
                      IN /\ (e.units > remaining \/ remaining = 0) =>
                                /\ e.pid \notin GrantedByScan
                                /\ PendingAfterStep(r, e)
                         /\ (e.units <= remaining /\ remaining # 0) =>
                                /\ e.pid \in GrantedByScan
                                /\ GrantedByStep(p, r, units, e)
      ]_vars

\* A release has run a scan that went over a request it left pending and,
\* after it, over a request it granted.
C20_Witness ==
    /\ result.op = "release"
    /\ \E r \in DOMAIN resources :
       \E i, j \in DOMAIN result.scanned :
        /\ i < j
        /\ OLookup(resources[r].requested, result.scanned[i].pid)
               = <<result.scanned[i].units>>
        /\ \E k \in DOMAIN result.satisfied :
               result.satisfied[k] = result.scanned[j].pid
        /\ result.scanned[j].pid \notin OKeys(resources[r].requested)
        /\ result.scanned[j].pid \in DOMAIN resources[r].allocated

----------------------------------------------------------------------------
\* Callers that starve a request.  One resource of StarveUnits units;
\* process 1 asks for all of them at once when none is free, the other
\* processes ask for one unit each and those that hold units give back one
\* unit at a time, and only when a one-unit request waits behind the request
\* of process 1.  Every step
\* is one call on the engine; the callers never stop calling while a call of
\* theirs is possible.

StarveUnits == 3

\* The units of r that are not allocated.
available_units(r) == resources[r].units - SumValues(resources[r].allocated)

\* process 1 has its request for the whole resource pending.
StarvedPending ==
    /\ 1 \in DOMAIN resources
    /\ OLookup(resources[1].requested, 1) = <<StarveUnits>>

\* A one-unit request of another process is pending.
SmallRequestPending ==
    \E i \in DOMAIN resources[1].requested :
        resources[1].requested[i].pid # 1 /\ resources[1].requested[i].units = 1

NextStarve ==
    \/ Cardinality(DOMAIN processes) < MaxProcs /\ create_process
          /\ UNCHANGED <<frames, labs>>
    \/ Cardinality(DOMAIN resources) < 1 /\ create_resource(StarveUnits)
          /\ UNCHANGED <<frames, labs>>
    \/ /\ 1 \in DOMAIN processes /\ 1 \in DOMAIN resources
       /\ available_units(1) = 0
       /\ request_resource(1, 1, StarveUnits)
       /\ UNCHANGED <<frames, labs>>
    \/ \E p \in (DOMAIN processes) \ {1} :
        /\ 1 \in DOMAIN resources
        /\ StarvedPending => available_units(1) = 0
        /\ request_resource(p, 1, 1)
        /\ UNCHANGED <<frames, labs>>
    \/ \E p \in (DOMAIN processes) \ {1} :
        /\ 1 \in DOMAIN resources
        /\ StarvedPending
        /\ SmallRequestPending
        /\ p \in DOMAIN resources[1].allocated
        /\ release_resource(p, 1, <<1>>)
        /\ UNCHANGED <<frames, labs>>

SpecStarve == Init /\ [][NextStarve]_vars /\ WF_vars(NextStarve)

\* The last call was a release whose scan went over the pending request of
\* process 1, left it pending, and granted a request behind it.
BypassedByScan ==
    /\ result.op = "release"
    /\ result.ret = "true"
    /\ StarvedPending
    /\ \E i, j \in DOMAIN result.scanned :
        /\ i < j
        /\ result.scanned[i].pid = 1
        /\ result.scanned[j].units < result.scanned[i].units
        /\ \E k \in DOMAIN result.satisfied :
               result.satisfied[k] = result.scanned[j].pid

\* C11: there are executions (all those of the callers above) in which the
\* request of process 1 becomes pending and is never granted although, again
\* and again, a unit of the resource is released and the scan of that
\* release grants a later request for fewer units: the engine does not
\* guarantee that a pending request is eventually granted.
C11_ScanOrderStarvation ==
    /\ <>StarvedPending
    /\ [](StarvedPending => []StarvedPending)
    /\ []<>BypassedByScan

\* The request of process 1 is pending and the scan of a release has just
\* passed over it to grant a later one-unit request.
C11_Witness == BypassedByScan

----------------------------------------------------------------------------
\* request_resource served by worker threads.  The endpoints are plain `def`
\* functions on the one module-level simulator and the engine takes no lock,
\* so a thread can be switched out between the statements of a call.  A call
\* is cut in three: the id checks and the read of available_units, the
\* recording of the request, and the branch on the value that was read.
\* Each calling process has at most one call in flight.

MaxCallers == 2

\* Lines 62-72: the id checks, then available_units is computed and kept in
\* a local.
request_resource_read(process_id, resource_id, units) ==
    /\ process_id \notin DOMAIN frames
    /\ IF process_id \notin DOMAIN processes \/ resource_id \notin DOMAIN resources
       THEN Raise("request") /\ UNCHANGED frames
       ELSE /\ frames' = Put(frames, process_id,
                             [resource_id |-> resource_id,
                              units |-> units,
                              available_units |-> available_units(resource_id),
                              pc |-> "record"])
            /\ UNCHANGED <<processes, resources, allocation_graph,
                           request_graph, result>>

\* Lines 76-78: "Record the request".
request_resource_record(process_id) ==
    /\ process_id \in DOMAIN frames
    /\ frames[process_id].pc = "record"
    /\ LET resource_id == frames[process_id].resource_id
           units == frames[process_id].units
       IN /\ resources' = [resources EXCEPT ![resource_id] =
                 [@ EXCEPT !.requested = OPut(@, process_id, units)]]
          /\ processes' = [processes EXCEPT ![process_id] =
                 [@ EXCEPT !.requested_resources = Put(@, resource_id, units)]]
          /\ request_graph' = [request_graph EXCEPT ![process_id] =
                 Put(@, resource_id, units)]
    /\ frames' = [frames EXCEPT ![process_id].pc = "decide"]
    /\ UNCHANGED <<allocation_graph, result>>

\* Lines 81-103: the branch on the available_units read earlier.  The
\* `del resource.requested[process_id]` of the grant raises KeyError when
\* the scan of a release has granted and removed the request meanwhile; the
\* allocation made just before stays.
request_resource_decide(process_id) ==
    /\ process_id \in DOMAIN frames
    /\ frames[process_id].pc = "decide"
    /\ LET resource_id == frames[process_id].resource_id
           units == frames[process_id].units
           process == processes[process_id]
           resource == resources[resource_id]
       IN IF frames[process_id].available_units >= units
          THEN /\ allocation_graph' = [allocation_graph EXCEPT ![process_id] =
                      SetAllocationGraph(@, resource_id, units)]
               /\ IF process_id \in OKeys(resource.requested)
                  THEN /\ resources' = [resources EXCEPT ![resource_id] =
                              [resource EXCEPT
                                  !.allocated = AddTo(@, process_id, units),
                                  !.requested = ODel(@, process_id)]]
                       /\ processes' = [processes EXCEPT ![process_id] =
                              [process EXCEPT
                                  !.allocated_resources =
                                      AddTo(@, resource_id, units),
                                  !.requested_resources = Del(@, resource_id)]]
                       /\ request_graph' = [request_graph EXCEPT ![process_id] =
                              Del(@, resource_id)]
                       /\ result' = Ret("request", "true")
                  ELSE /\ resources' = [resources EXCEPT ![resource_id] =
                              [resource EXCEPT
                                  !.allocated = AddTo(@, process_id, units)]]
                       /\ processes' = [processes EXCEPT ![process_id] =
                              [process EXCEPT
                                  !.allocated_resources =
                                      AddTo(@, resource_id, units)]]
                       /\ UNCHANGED request_graph
                       /\ result' = Ret("request", "KeyError")
               /\ Capped(resources')
          ELSE /\ processes' = [processes EXCEPT ![process_id] =
                      [process EXCEPT !.status = "blocked"]]
               /\ UNCHANGED <<resources, allocation_graph, request_graph>>
               /\ result' = Ret("request", "false")
    /\ frames' = Del(frames, process_id)

\* Up to MaxCallers processes call request_resource on one resource from
\* threads of their own; creations and releases run in one step.
NextThreads ==
    \/ /\ Cardinality(DOMAIN processes) < MaxCallers
       /\ create_process
       /\ UNCHANGED <<frames, labs>>
    \/ \E units \in 1..MaxIntUnits :
           /\ Cardinality(DOMAIN resources) < 1
           /\ create_resource(units)
           /\ UNCHANGED <<frames, labs>>
    \/ \E p \in 1..MaxCallers, units \in 1..MaxIntUnits :
           request_resource_read(p, 1, units) /\ UNCHANGED labs
    \/ \E p \in 1..MaxCallers : request_resource_record(p) /\ UNCHANGED labs
    \/ \E p \in 1..MaxCallers : request_resource_decide(p) /\ UNCHANGED labs
    \/ \E p \in 1..MaxCallers :
           release_resource(p, 1, <<>>) /\ UNCHANGED <<frames, labs>>

SpecThreads == Init /\ [][NextThreads]_vars

\* C14: the public operations on the shared engine are serialized, so two
\* request calls that overlap cannot both act on the same available count:
\* the units granted never exceed the capacity of the resource.
C14_NoGrantBeyondCapacity ==
    \A r \in DOMAIN resources :
        SumOver(resources[r].allocated, DOMAIN resources[r].allocated)
            <= resources[r].units

----------------------------------------------------------------------------
\* The three allocation views of (p, r) before and after a step.
ViewsBefore(p, r) ==
    <<Lookup(resources[r].allocated, p),
      Lookup(processes[p].allocated_resources, r),
      Lookup(allocation_graph[p], r)>>

ViewsAfter(p, r) ==
    <<Lookup(resources'[r].allocated, p),
      Lookup(processes'[p].allocated_resources, r),
      Lookup(allocation_graph'[p], r)>>

\* C21: release_resource(p, r, units) with units strictly less than what p
\* holds of r lowers the entry of (p, r) by exactly units in
\* resource.allocated, process.allocated_resources and allocation_graph and
\* leaves an entry that is positive and smaller than before; with units
\* unset or >= the held amount it removes the entry from all three.  (Stated
\* for a process with no request of its own pending on r, so that the scan
\* of the release grants it nothing.)
C21_ReleaseAdjustsAllThree ==
    [][(result'.op = "release" /\ result'.ret = "true") =>
          \A p \in DOMAIN processes, r \in DOMAIN resources,
             units \in Optional(AnyUnits) :
              (/\ release_resource(p, r, units)
               /\ p \notin OKeys(resources[r].requested)) =>
                  IF units # <<>> /\ units[1] < resources[r].allocated[p]
                  THEN \A v \in 1..3 :
                          /\ ViewsBefore(p, r)[v] # <<>>
                          /\ ViewsAfter(p, r)[v]
                                 = <<ViewsBefore(p, r)[v][1] - units[1]>>
                          /\ ViewsAfter(p, r)[v][1] > 0
                          /\ ViewsAfter(p, r)[v][1] < ViewsBefore(p, r)[v][1]
                  ELSE \A v \in 1..3 : ViewsAfter(p, r)[v] = <<>>
      ]_vars

\* C22: in every reachable state every pending request for a resource r asks
\* for more units than r has available (its total units minus the sum of its
\* allocated units): no pending request could be granted as things stand.
\* (Stated for resources created with at least one unit and pending requests
\* for at least one unit.)
C22_WorkConservation ==
    \A r \in DOMAIN resources :
        resources[r].units >= 1 =>
            \A i \in DOMAIN resources[r].requested :
                resources[r].requested[i].units >= 1 =>
                    resources[r].requested[i].units > FreeUnits(r)

\* No process has two entries in the requested map of r.
OnePendingEach(requested) ==
    \A i, j \in DOMAIN requested : requested[i].pid = requested[j].pid => i = j

\* After the step p has no request pending on r in any request structure.
PendingInNone(p, r) ==
    /\ p \notin OKeys(resources'[r].requested)
    /\ r \notin DOMAIN processes'[p].requested_resources
    /\ r \notin DOMAIN request_graph'[p]

\* C23: a process has at most one pending request per resource.  A
\* request_resource(p, r, units) made while p already has a request pending
\* on r leaves, when it is not granted, one pending request of p on r for
\* units (the new amount, not the sum) in the three request structures, and
\* when it is granted no pending request of p on r in any of them.
C23_OnePendingRequestPerResource ==
    [][(result'.op = "request") =>
          \A p \in DOMAIN processes, r \in DOMAIN resources, units \in AnyUnits :
              (/\ request_resource(p, r, units)
               /\ p \in OKeys(resources[r].requested)) =>
                  /\ OnePendingEach(resources'[r].requested)
                  /\ (result'.ret = "false") => PendingInAllThree(p, r, units)
                  /\ (result'.ret = "true") => PendingInNone(p, r)
      ]_vars

\* A request was granted at once and a process that went blocked on a
\* request of its own has no request pending any more, though no scan
\* granted it: its earlier pending request went with a later request of its
\* own that was granted.
C23_Witness ==
    /\ result.op = "request"
    /\ result.ret = "true"
    /\ \E p \in DOMAIN processes :
        /\ processes[p].status = "blocked"
        /\ DOMAIN processes[p].requested_resources = {}
        /\ DOMAIN request_graph[p] = {}
        /\ \A r \in DOMAIN resources :
            /\ p \notin OKeys(resources[r].requested)
            /\ p \in DOMAIN resources[r].allocated

----------------------------------------------------------------------------
\* The producer/consumer simulation of the concurrency simulator
\* (concurrency-simulator/app/main.py).  One simulation object is followed:
\* simulations of the registry share nothing.  producer_consumer holds its
\* fields: status ("absent" before create_simulation has built it), buffer,
\* buffer_size, lock (0 when free, else the index of the thread inside
\* `with self.lock`) and threads, every thread start() has launched with the
\* place it has reached in its loop.  start() replaces self.threads by two
\* new threads and starts them; the threads of an earlier start() keep
\* running, so they stay in the model's threads.  The log is append-only
\* text that no branch reads and is left out.

MaxBuffer == 2
MaxThreads == 4

\* CreateSimulationRequest.buffer_size is an int nothing validates (a null
\* makes the producer's comparison raise before anything is appended).
BufferSizes == (0 - 1)..MaxBuffer

Thread(target) == [target |-> target, pc |-> "while"]

\* POST /simulations/ with sim_type producer_consumer.
create_producer_consumer(buffer_size) ==
    /\ producer_consumer.status = "absent"
    /\ producer_consumer' = [status |-> "ready", buffer |-> <<>>,
                             buffer_size |-> buffer_size, lock |-> 0,
                             threads |-> <<>>]

\* ProducerConsumerSimulation.start.
start_producer_consumer ==
    /\ producer_consumer.status # "absent"
    /\ Len(producer_consumer.threads) + 2 <= MaxThreads
    /\ producer_consumer' = [producer_consumer EXCEPT
           !.status = "running",
           !.threads = @ \o <<Thread("producer"), Thread("consumer")>>]

\* BaseSimulation.pause, resume and stop (the join of stop waits at most a
\* second for each thread and changes nothing).
set_status(status) ==
    /\ producer_consumer.status # "absent"
    /\ producer_consumer' = [producer_consumer EXCEPT !.status = status]

pause_producer_consumer == set_status("paused")

resume_producer_consumer == set_status("running")

stop_producer_consumer == set_status("completed")

At(t, pc) ==
    /\ t \in DOMAIN producer_consumer.threads
    /\ producer_consumer.threads[t].pc = pc

Goto(t, pc) == [producer_consumer EXCEPT !.threads[t].pc = pc]

\* `while self.status == SimulationStatus.RUNNING`
loop_test(t) ==
    /\ At(t, "while")
    /\ producer_consumer' =
           Goto(t, IF producer_consumer.status = "running" THEN "lock" ELSE "done")

LockTakenOrNot(lock) == TRUE

\* threading.Lock: acquire goes through only while nobody holds the lock.
LockIsFree(lock) == lock = 0

\* `with self.lock:` on the way in.
lock_enter(t) ==
    /\ At(t, "lock")
    /\ LockIsFree(producer_consumer.lock)
    /\ producer_consumer' = [Goto(t, "test") EXCEPT !.lock = t]

\* `if len(self.buffer) < self.buffer_size` of the producer and
\* `if self.buffer` of the consumer.
buffer_test(t) ==
    /\ At(t, "test")
    /\ LET self == producer_consumer
       IN producer_consumer' =
              IF self.threads[t].target = "producer"
              THEN Goto(t, IF Len(self.buffer) < self.buffer_size
                           THEN "append" ELSE "unlock")
              ELSE Goto(t, IF self.buffer # <<>> THEN "pop" ELSE "unlock")

\* self.buffer.append("Item")
buffer_append(t) ==
    /\ At(t, "append")
    /\ producer_consumer' =
           [Goto(t, "unlock") EXCEPT !.buffer = Append(@, "Item")]

\* self.buffer.pop(0): IndexError on an empty list, which leaves the with
\* block (releasing the lock) and ends the thread.
buffer_pop(t) ==
    /\ At(t, "pop")
    /\ producer_consumer' =
           IF producer_consumer.buffer = <<>>
           THEN [Goto(t, "IndexError") EXCEPT !.lock = 0]
           ELSE [Goto(t, "unlock") EXCEPT !.buffer = Tail(@)]

\* The end of the with block, then the wait before the next round.
lock_exit(t) ==
    /\ At(t, "unlock")
    /\ producer_consumer' = [Goto(t, "while") EXCEPT !.lock = 0]

\* The simulator's steps leave the engine and the other services alone.
OnlyProducerConsumer ==
    UNCHANGED <<processes, resources, allocation_graph, request_graph,
                result, frames, dining_philosophers, fs_manager, fs_result>>

NextProducerConsumer ==
    \/ \E buffer_size \in BufferSizes :
           create_producer_consumer(buffer_size) /\ OnlyProducerConsumer
    \/ start_producer_consumer /\ OnlyProducerConsumer
    \/ pause_producer_consumer /\ OnlyProducerConsumer
    \/ resume_producer_consumer /\ OnlyProducerConsumer
    \/ stop_producer_consumer /\ OnlyProducerConsumer
    \/ \E t \in 1..MaxThreads : loop_test(t) /\ OnlyProducerConsumer
    \/ \E t \in 1..MaxThreads : lock_enter(t) /\ OnlyProducerConsumer
    \/ \E t \in 1..MaxThreads : buffer_test(t) /\ OnlyProducerConsumer
    \/ \E t \in 1..MaxThreads : buffer_append(t) /\ OnlyProducerConsumer
    \/ \E t \in 1..MaxThreads : buffer_pop(t) /\ OnlyProducerConsumer
    \/ \E t \in 1..MaxThreads : lock_exit(t) /\ OnlyProducerConsumer

SpecProducerConsumer == Init /\ [][NextProducerConsumer]_vars

PoppedFromEmpty ==
    \E t \in DOMAIN producer_consumer.threads :
        producer_consumer.threads[t].pc = "IndexError"

\* C24 as stated: in every state the buffer length lies between 0 and
\* buffer_size inclusive.
C24_BufferWithinZeroAndSize ==
    producer_consumer.status # "absent" =>
        /\ 0 <= Len(producer_consumer.buffer)
        /\ Len(producer_consumer.buffer) <= producer_consumer.buffer_size

\* C24 amended: for a simulation whose buffer_size is not negative, under
\* every interleaving of the threads the buffer length lies between 0 and
\* buffer_size inclusive, and no consumer pops from an empty buffer; for a
\* negative buffer_size the buffer stays empty.
C24_BufferBoundedUnderLock ==
    /\ ~PoppedFromEmpty
    /\ 0 <= Len(producer_consumer.buffer)
    /\ producer_consumer.buffer_size >= 0 =>
           Len(producer_consumer.buffer) <= producer_consumer.buffer_size
    /\ producer_consumer.buffer_size < 0 => producer_consumer.buffer = <<>>

\* The buffer is full while a second producer waits for the lock and a
\* consumer is about to pop.
C24_Witness ==
    /\ producer_consumer.buffer_size = MaxBuffer
    /\ Len(producer_consumer.buffer) = MaxBuffer
    /\ \E t, u \in DOMAIN producer_consumer.threads :
           /\ producer_consumer.threads[t].target = "producer"
           /\ producer_consumer.threads[t].pc = "lock"
           /\ producer_consumer.threads[u].target = "consumer"
           /\ producer_consumer.threads[u].pc = "pop"

----------------------------------------------------------------------------
\* The dining-philosophers simulation of the concurrency simulator.
\* dining_philosophers holds the fields of one simulation object: status,
\* num_philosophers, forks (for each fork the philosopher holding its lock,
\* -1 when free), states, and tasks, the place each philosopher_task thread
\* has reached ("idle" before the thread runs).
\*
\* The file builds the threads (_initialize_threads) but has no call that
\* starts them, and philosopher_task calls should_continue and
\* wait_if_paused, which no class of the file defines.  The model covers
\* every way the rest of the task can come to run: a thread may start at any
\* time after the object is built, should_continue may end the task (as the
\* failing attribute lookup does) or let it go on, and wait_if_paused
\* returns without touching the forks.

MaxPhilosophers == 4

\* CreateSimulationRequest.num_philosophers
PhilosopherCounts == 1..MaxPhilosophers

Philosophers == 0..(dining_philosophers.num_philosophers - 1)

\* POST /simulations/ with sim_type dining_philosophers.
create_dining_philosophers(num_philosophers) ==
    /\ dining_philosophers.status = "absent"
    /\ dining_philosophers' =
           [status |-> "ready",
            num_philosophers |-> num_philosophers,
            forks |-> [i \in 0..(num_philosophers - 1) |-> 0 - 1],
            states |-> [i \in 0..(num_philosophers - 1) |-> "Thinking"],
            tasks |-> [i \in 0..(num_philosophers - 1) |-> "idle"]]

\* BaseSimulation.start, pause, resume and stop, which this class inherits
\* unchanged: they set the status.
set_dining_status(status) ==
    /\ dining_philosophers.status \notin {"absent", status}
    /\ dining_philosophers' = [dining_philosophers EXCEPT !.status = status]

fork_order_left_first(philosopher_id, num_philosophers) ==
    [first_fork |-> philosopher_id,
     second_fork |-> (philosopher_id + 1) % num_philosophers]

\* Lines 94-101: even philosophers pick the right fork first, odd ones the
\* left fork.
fork_order(philosopher_id, num_philosophers) ==
    LET left_fork == philosopher_id
        right_fork == (philosopher_id + 1) % num_philosophers
    IN IF philosopher_id % 2 = 0
       THEN [first_fork |-> right_fork, second_fork |-> left_fork]
       ELSE [first_fork |-> left_fork, second_fork |-> right_fork]

first_fork(philosopher_id) ==
    fork_order(philosopher_id, dining_philosophers.num_philosophers).first_fork

second_fork(philosopher_id) ==
    fork_order(philosopher_id, dining_philosophers.num_philosophers).second_fork

TaskAt(philosopher_id, pc) ==
    /\ philosopher_id \in Philosophers
    /\ dining_philosophers.tasks[philosopher_id] = pc

\* A thread enters philosopher_task(philosopher_id).
philosopher_task(philosopher_id) ==
    /\ TaskAt(philosopher_id, "idle")
    /\ dining_philosophers' =
           [dining_philosophers EXCEPT !.tasks[philosopher_id] = "while"]

\* Line 103, `while self.should_continue()`.
should_continue(philosopher_id, continue) ==
    /\ TaskAt(philosopher_id, "while")
    /\ dining_philosophers' =
           [dining_philosophers EXCEPT
               !.tasks[philosopher_id] = IF continue THEN "think" ELSE "done"]

\* Lines 106-112.
think(philosopher_id) ==
    /\ TaskAt(philosopher_id, "think")
    /\ dining_philosophers' =
           [dining_philosophers EXCEPT
               !.states[philosopher_id] = "Thinking",
               !.tasks[philosopher_id] = "first"]

\* Line 115: self.forks[first_fork].acquire() waits until the fork is free.
acquire_first(philosopher_id) ==
    /\ TaskAt(philosopher_id, "first")
    /\ dining_philosophers.forks[first_fork(philosopher_id)] = 0 - 1
    /\ dining_philosophers' =
           [dining_philosophers EXCEPT
               !.forks[first_fork(philosopher_id)] = philosopher_id,
               !.tasks[philosopher_id] = "second"]

\* Lines 122-127: self.forks[second_fork].acquire(timeout=2) succeeded.
acquire_second(philosopher_id) ==
    /\ TaskAt(philosopher_id, "second")
    /\ dining_philosophers.forks[second_fork(philosopher_id)] = 0 - 1
    /\ dining_philosophers' =
           [dining_philosophers EXCEPT
               !.forks[second_fork(philosopher_id)] = philosopher_id,
               !.states[philosopher_id] = "Eating",
               !.tasks[philosopher_id] = "eating"]

\* Line 122: the fork stayed taken for the two seconds of the timeout.
acquire_second_timeout(philosopher_id) ==
    /\ TaskAt(philosopher_id, "second")
    /\ dining_philosophers.forks[second_fork(philosopher_id)] # 0 - 1
    /\ dining_philosophers' =
           [dining_philosophers EXCEPT !.tasks[philosopher_id] = "release"]

\* Line 130.
release_second(philosopher_id) ==
    /\ TaskAt(philosopher_id, "eating")
    /\ dining_philosophers' =
           [dining_philosophers EXCEPT
               !.forks[second_fork(philosopher_id)] = 0 - 1,
               !.tasks[philosopher_id] = "release"]

\* Line 134, then back to the loop test.
release_first(philosopher_id) ==
    /\ TaskAt(philosopher_id, "release")
    /\ dining_philosophers' =
           [dining_philosophers EXCEPT
               !.forks[first_fork(philosopher_id)] = 0 - 1,
               !.tasks[philosopher_id] = "while"]

OnlyDiningPhilosophers ==
    UNCHANGED <<processes, resources, allocation_graph, request_graph,
                result, frames, producer_consumer, fs_manager, fs_result>>

PhilosopherIds == 0..(MaxPhilosophers - 1)

NextDiningPhilosophers ==
    \/ \E num_philosophers \in PhilosopherCounts :
           create_dining_philosophers(num_philosophers) /\ OnlyDiningPhilosophers
    \/ \E status \in {"running", "paused", "completed"} :
           set_dining_status(status) /\ OnlyDiningPhilosophers
    \/ \E i \in PhilosopherIds : philosopher_task(i) /\ OnlyDiningPhilosophers
    \/ \E i \in PhilosopherIds :
           should_continue(i, TRUE) /\ OnlyDiningPhilosophers
    \/ \E i \in PhilosopherIds :
           should_continue(i, FALSE) /\ OnlyDiningPhilosophers
    \/ \E i \in PhilosopherIds : think(i) /\ OnlyDiningPhilosophers
    \/ \E i \in PhilosopherIds : acquire_first(i) /\ OnlyDiningPhilosophers
    \/ \E i \in PhilosopherIds : acquire_second(i) /\ OnlyDiningPhilosophers
    \/ \E i \in PhilosopherIds :
           acquire_second_timeout(i) /\ OnlyDiningPhilosophers
    \/ \E i \in PhilosopherIds : release_second(i) /\ OnlyDiningPhilosophers
    \/ \E i \in PhilosopherIds : release_first(i) /\ OnlyDiningPhilosophers

SpecDiningPhilosophers == Init /\ [][NextDiningPhilosophers]_vars

\* The philosopher holds its first fork and is at the acquire of its second.
HoldsFirstWaitsSecond(i) ==
    /\ dining_philosophers.tasks[i] = "second"
    /\ dining_philosophers.forks[first_fork(i)] = i

\* C25: with two or more philosophers no reachable state has every
\* philosopher holding its first fork and waiting for its second (no
\* circular wait); a philosopher at the acquire of its second fork holds
\* its first.
C25_NoCircularWait ==
    /\ \A i \in Philosophers :
           dining_philosophers.tasks[i] = "second" => HoldsFirstWaitsSecond(i)
    /\ dining_philosophers.num_philosophers >= 2 =>
           ~ \A i \in Philosophers : HoldsFirstWaitsSecond(i)

\* As many philosophers as the fork order allows hold their first fork and
\* wait for a second fork that another one holds; the others wait for their
\* first fork.
C25_Witness ==
    /\ dining_philosophers.num_philosophers >= 3
    /\ \E j \in Philosophers :
           /\ dining_philosophers.tasks[j] = "first"
           /\ \A i \in Philosophers \ {j} : HoldsFirstWaitsSecond(i)
    /\ \E i \in Philosophers :
           /\ HoldsFirstWaitsSecond(i)
           /\ dining_philosophers.forks[second_fork(i)] \notin {0 - 1, i}

----------------------------------------------------------------------------
\* The filesystem service (filesystem/app/main.py).  fs_manager holds the
\* manager's files (id -> File) and directories; fs_result records the last
\* call: its name, the file id and user id it was given and how it ended
\* ("ok" or "true"/"false" for a return, "ValueError" for a raise).  A File
\* keeps name, content, parent_dir, is_locked and lock_holder (<<>> for
\* None, <<u>> for user u); size is len(content) and the timestamps are not
\* read by any branch.  Each method is one step: between its tests and its
\* assignments on the lock fields there is no call and no loop at which the
\* interpreter hands over to another thread.

MaxFiles == 2

\* uuid4 strings, as far as the model follows them.
FileIds == 1..MaxFiles

FileNames == {"a", "b"}

Contents == {"", "x"}

DirNames == {"/", "docs"}

\* LockRequest.user_id; write_file compares the holder with "current_user".
Users == {"alice", "current_user"}

File(name, content, parent_dir) ==
    [name |-> name, content |-> content, parent_dir |-> parent_dir,
     is_locked |-> FALSE, lock_holder |-> <<>>]

FsRet(op, file_id, user_id, ret) ==
    [op |-> op, file_id |-> file_id, user_id |-> user_id, ret |-> ret]

\* `raise ValueError(...)`: nothing was changed.
FsRaise(op, file_id, user_id) ==
    /\ fs_result' = FsRet(op, file_id, user_id, "ValueError")
    /\ UNCHANGED fs_manager

parent_exists(parent_dir) ==
    \E d \in fs_manager.directories : d.name = parent_dir

create_file(name, content, parent_dir) ==
    IF \/ ~parent_exists(parent_dir)
       \/ \E id \in DOMAIN fs_manager.files :
              /\ fs_manager.files[id].name = name
              /\ fs_manager.files[id].parent_dir = parent_dir
    THEN FsRaise("create_file", 0, "")
    ELSE \E id \in FileIds \ DOMAIN fs_manager.files :
             /\ fs_manager' = [fs_manager EXCEPT
                    !.files = Put(@, id, File(name, content, parent_dir))]
             /\ fs_result' = FsRet("create_file", id, "", "ok")

read_file(file_id) ==
    IF file_id \notin DOMAIN fs_manager.files
    THEN FsRaise("read_file", file_id, "")
    ELSE IF fs_manager.files[file_id].is_locked
         THEN FsRaise("read_file", file_id, "")
         ELSE /\ fs_result' = FsRet("read_file", file_id, "", "ok")
              /\ UNCHANGED fs_manager

write_file(file_id, content) ==
    IF file_id \notin DOMAIN fs_manager.files
    THEN FsRaise("write_file", file_id, "")
    ELSE LET file == fs_manager.files[file_id]
         IN IF file.is_locked /\ file.lock_holder # <<"current_user">>
            THEN FsRaise("write_file", file_id, "")
            ELSE /\ fs_manager' = [fs_manager EXCEPT
                        !.files[file_id].content = content]
                 /\ fs_result' = FsRet("write_file", file_id, "", "ok")

delete_file(file_id) ==
    IF file_id \notin DOMAIN fs_manager.files
    THEN FsRaise("delete_file", file_id, "")
    ELSE IF fs_manager.files[file_id].is_locked
         THEN FsRaise("delete_file", file_id, "")
         ELSE /\ fs_manager' = [fs_manager EXCEPT !.files = Del(@, file_id)]
              /\ fs_result' = FsRet("delete_file", file_id, "", "true")

create_directory(name, parent_dir) ==
    IF \/ ~parent_exists(parent_dir)
       \/ \E d \in fs_manager.directories :
              d.name = name /\ d.parent_dir = parent_dir
    THEN FsRaise("create_directory", 0, "")
    ELSE /\ fs_manager' = [fs_manager EXCEPT
                !.directories = @ \cup {[name |-> name,
                                         parent_dir |-> parent_dir]}]
         /\ fs_result' = FsRet("create_directory", 0, "", "ok")

lock_file(file_id, user_id) ==
    IF file_id \notin DOMAIN fs_manager.files
    THEN FsRaise("lock_file", file_id, user_id)
    ELSE IF fs_manager.files[file_id].is_locked
         THEN /\ fs_result' = FsRet("lock_file", file_id, user_id, "false")
              /\ UNCHANGED fs_manager
         ELSE /\ fs_manager' = [fs_manager EXCEPT
                     !.files[file_id].is_locked = TRUE,
                     !.files[file_id].lock_holder = <<user_id>>]
              /\ fs_result' = FsRet("lock_file", file_id, user_id, "true")

NotUnlockable(file, user_id) == ~file.is_locked

\* Line 130: `if not file.is_locked or file.lock_holder != user_id`
NotHolder(file, user_id) ==
    ~file.is_locked \/ file.lock_holder # <<user_id>>

unlock_file(file_id, user_id) ==
    IF file_id \notin DOMAIN fs_manager.files
    THEN FsRaise("unlock_file", file_id, user_id)
    ELSE IF NotHolder(fs_manager.files[file_id], user_id)
         THEN /\ fs_result' = FsRet("unlock_file", file_id, user_id, "false")
              /\ UNCHANGED fs_manager
         ELSE /\ fs_manager' = [fs_manager EXCEPT
                     !.files[file_id].is_locked = FALSE,
                     !.files[file_id].lock_holder = <<>>]
              /\ fs_result' = FsRet("unlock_file", file_id, user_id, "true")

OnlyFilesystem ==
    UNCHANGED <<processes, resources, allocation_graph, request_graph,
                result, frames, producer_consumer, dining_philosophers>>

NextFilesystem ==
    \/ \E name \in FileNames, content \in Contents, parent_dir \in DirNames :
           create_file(name, content, parent_dir) /\ OnlyFilesystem
    \/ \E file_id \in FileIds : read_file(file_id) /\ OnlyFilesystem
    \/ \E file_id \in FileIds, content \in Contents :
           write_file(file_id, content) /\ OnlyFilesystem
    \/ \E file_id \in FileIds : delete_file(file_id) /\ OnlyFilesystem
    \/ \E name \in DirNames \ {"/"}, parent_dir \in DirNames :
           create_directory(name, parent_dir) /\ OnlyFilesystem
    \/ \E file_id \in FileIds, user_id \in Users :
           lock_file(file_id, user_id) /\ OnlyFilesystem
    \/ \E file_id \in FileIds, user_id \in Users :
           unlock_file(file_id, user_id) /\ OnlyFilesystem

SpecFilesystem == Init /\ [][NextFilesystem]_vars

LockedBy(manager, file_id, user_id) ==
    /\ file_id \in DOMAIN manager.files
    /\ manager.files[file_id].is_locked
    /\ manager.files[file_id].lock_holder = <<user_id>>

IsLocked(file_id) ==
    /\ file_id \in DOMAIN fs_manager.files
    /\ fs_manager.files[file_id].is_locked

\* The step was the call op on file_id.
Called(op, file_id) ==
    fs_result'.op = op /\ fs_result'.file_id = file_id

\* C26: a lock_file(f, u) that returns true leaves f locked with holder u;
\* a file locked by u stays locked by u over every step except an
\* unlock_file(f, u) by that same u; on a locked file lock_file by anyone
\* returns false, unlock_file by another user returns false and delete_file
\* raises, each leaving the manager as it was; and in every state is_locked
\* holds exactly when lock_holder is set.
C26_LockOwnership ==
    [][ /\ \A f \in FileIds, u \in Users :
            /\ Called("lock_file", f) /\ fs_result'.user_id = u
               /\ fs_result'.ret = "true"
                   => LockedBy(fs_manager', f, u)
            /\ LockedBy(fs_manager, f, u) =>
                   \/ LockedBy(fs_manager', f, u)
                   \/ /\ Called("unlock_file", f)
                      /\ fs_result'.user_id = u
                      /\ fs_result'.ret = "true"
            /\ LockedBy(fs_manager, f, u) /\ Called("unlock_file", f)
               /\ fs_result'.user_id # u
                   => fs_result'.ret = "false" /\ fs_manager' = fs_manager
        /\ \A f \in FileIds :
            /\ IsLocked(f) /\ Called("lock_file", f)
                   => fs_result'.ret = "false" /\ fs_manager' = fs_manager
            /\ IsLocked(f) /\ Called("delete_file", f)
                   => fs_result'.ret = "ValueError" /\ fs_manager' = fs_manager
        /\ \A f \in DOMAIN fs_manager'.files :
               fs_manager'.files[f].is_locked
                   <=> fs_manager'.files[f].lock_holder # <<>>
      ]_vars

\* A file locked by one user has just refused the unlock_file of another.
C26_Witness ==
    /\ fs_result.op = "unlock_file"
    /\ fs_result.ret = "false"
    /\ \E u \in Users \ {fs_result.user_id} :
           LockedBy(fs_manager, fs_result.file_id, u)

====
